---- MODULE Spec2Model ----
(***************************************************************************)
(* A model of src/src/PosthogAnalytics.ts: the PosthogAnalytics pipeline   *)
(* (consent tier, redaction of the current location, hashing of            *)
(* identifiers) and its use of the posthog sink.                           *)
(*                                                                         *)
(* Strings are sequences of tokens; the token "/" is the path separator,   *)
(* every other token is an atomic piece of text.  JavaScript runs each     *)
(* stretch of code between two awaits to completion, so every action of    *)
(* the model is one such stretch; continuations of different calls         *)
(* interleave freely.                                                      *)
(***************************************************************************)
EXTENDS Integers, Sequences, FiniteSets, TLC

\* Bounds of the model.
MaxCalls == 2      \* public track / identify calls made in one run
MaxNav == 1        \* changes of window.location in one run
MaxInits == 2      \* init() calls made in one run
MaxSegments == 3   \* trailing segments of a fragment passed to getRedactedCurrentLocation

VARIABLES
    onlyTrackAnonymousEvents,   \* PosthogAnalytics.onlyTrackAnonymousEvents
    initialised,                \* PosthogAnalytics.initialised
    redactedCurrentLocation,    \* PosthogAnalytics.redactedCurrentLocation
    navCount,                   \* how often window.location has changed
    calls,                      \* the frames of the public calls made so far
    initCall,                   \* the frame of the init() call
    sink,                       \* the invocation of the sink (posthog) the last step made
    cacheSrc,                   \* the recompute that stored the cache last
    redaction                   \* the frame of a direct call of getRedactedCurrentLocation

vars == <<onlyTrackAnonymousEvents, initialised, redactedCurrentLocation,
          navCount, calls, initCall, sink, cacheSrc, redaction>>

-----------------------------------------------------------------------------
\* Values.

\* enum Anonymity
Anonymous == "Anonymous"
Pseudonymous == "Pseudonymous"

\* JavaScript null and undefined, as strings of their own.
Null == <<"<null>">>
Undefined == <<"<undefined>">>

\* The concatenation of the tokens of a string into one token.
RECURSIVE Flatten(_)
Flatten(s) == IF s = <<>> THEN "" ELSE Head(s) \o Flatten(Tail(s))

\* hashHex, when crypto.subtle.digest resolves: the lower-case hex digest of
\* the input, one token that is no token of any input.
hashHex(input) == <<"sha256(" \o Flatten(input) \o ")">>

knownScreens ==
    { <<"register">>, <<"login">>, <<"forgot_password">>, <<"soft_logout">>,
      <<"new">>, <<"settings">>, <<"welcome">>, <<"home">>, <<"start">>,
      <<"directory">>, <<"start_sso">>, <<"start_cas">>, <<"groups">>,
      <<"complete_security">>, <<"post_registration">>, <<"room">>,
      <<"user">>, <<"group">> }

\* String.prototype.split("/"): the pieces between the separators; the empty
\* string splits into one empty piece.
RECURSIVE Split(_)
Split(s) ==
    IF s = <<>> THEN << <<>> >>
    ELSE IF Head(s) = "/" THEN << <<>> >> \o Split(Tail(s))
    ELSE LET r == Split(Tail(s)) IN << <<Head(s)>> \o r[1] >> \o Tail(r)

\* Array.prototype.join("/")
RECURSIVE Join(_)
Join(parts) ==
    IF parts = <<>> THEN <<>>
    ELSE IF Len(parts) = 1 THEN parts[1]
    ELSE parts[1] \o <<"/">> \o Join(Tail(parts))

\* String.prototype.startsWith
StartsWith(s, prefix) ==
    /\ Len(s) >= Len(prefix)
    /\ SubSeq(s, 1, Len(prefix)) = prefix

\* let [_, screen, ...parts] = hash.split("/")
HashLead(hash) == Split(hash)[1]
HashScreen(hash) == IF Len(Split(hash)) >= 2 THEN Split(hash)[2] ELSE Undefined
HashParts(hash) == IF Len(Split(hash)) >= 2 THEN Tail(Tail(Split(hash))) ELSE <<>>

\* A loop that stops after the first trailing segment.
RedactFirstPart(parts, anonymity) ==
    [i \in 1..Len(parts) |->
        IF i > 1 THEN parts[i]
        ELSE IF anonymity = Anonymous THEN <<"<redacted>">> ELSE hashHex(parts[i])]

\* The loop of getRedactedCurrentLocation over the trailing segments.
RedactParts(parts, anonymity) ==
    [i \in 1..Len(parts) |->
        IF anonymity = Anonymous THEN <<"<redacted>">> ELSE hashHex(parts[i])]

\* getRedactedCurrentLocation that keeps the pathname of a local file.
getRedactedCurrentLocationKeepsPath(origin, hash, pathname, anonymity) ==
    LET screen == IF HashScreen(hash) \in knownScreens
                  THEN HashScreen(hash)
                  ELSE <<"<redacted_screen_name>">>
        parts == RedactParts(HashParts(hash), anonymity)
        hashStr == HashLead(hash) \o <<"/">> \o screen \o <<"/">> \o Join(parts)
    IN origin \o pathname \o hashStr

\* getRedactedCurrentLocation that hashes a screen it does not know when the
\* tier is Pseudonymous.
getRedactedCurrentLocationHashesScreen(origin, hash, pathname, anonymity) ==
    LET path == IF StartsWith(origin, <<"file://">>)
                THEN <<"/", "<redacted_file_scheme_url>", "/">>
                ELSE pathname
        screen == IF HashScreen(hash) \in knownScreens
                  THEN HashScreen(hash)
                  ELSE IF anonymity = Anonymous
                       THEN <<"<redacted_screen_name>">>
                       ELSE hashHex(HashScreen(hash))
        parts == RedactParts(HashParts(hash), anonymity)
        hashStr == HashLead(hash) \o <<"/">> \o screen \o <<"/">> \o Join(parts)
    IN origin \o path \o hashStr

\* getRedactedCurrentLocation, when every digest it awaits resolves.
getRedactedCurrentLocation(origin, hash, pathname, anonymity) ==
    LET path == IF StartsWith(origin, <<"file://">>)
                THEN <<"/", "<redacted_file_scheme_url>", "/">>
                ELSE pathname
        screen == IF HashScreen(hash) \in knownScreens
                  THEN HashScreen(hash)
                  ELSE <<"<redacted_screen_name>">>
        parts == RedactParts(HashParts(hash), anonymity)
        hashStr == HashLead(hash) \o <<"/">> \o screen \o <<"/">> \o Join(parts)
    IN origin \o path \o hashStr

\* The number of digests getRedactedCurrentLocation awaits, one after the
\* other: one for each trailing segment, and none under Anonymous.
DigestsAwaited(hash, anonymity) ==
    IF anonymity = Anonymous THEN 0 ELSE Len(HashParts(hash))

-----------------------------------------------------------------------------
\* The environment.

\* The values window.location takes, in the order the user visits them, again
\* and again: a room of the app opened from a local file (one trailing
\* segment) and the home screen of the web app (no trailing segment).
Locations ==
    << [origin |-> <<"file://">>,
        pathname |-> <<"/", "Users", "/", "alice", "/", "index.html">>,
        hash |-> <<"#", "/", "room", "/", "!r1:hs">>],
       [origin |-> <<"https://", "app.example">>,
        pathname |-> <<"/">>,
        hash |-> <<"#", "/", "home">>] >>

\* window.location after `ver` changes.
LocationAt(ver) == Locations[(ver % Len(Locations)) + 1]

\* window.location
location == LocationAt(navCount)

\* The arguments the callers pass.
RoomIds == {Null, <<>>, <<"!r1:hs">>}
UserIds == {<<"@alice:hs">>}

\* The keys of the properties the sink hands to the sanitize hook.
PropKeys ==
    {"$current_url", "$referrer", "$referring_domain", "$initial_referrer",
     "$initial_referring_domain", "$device_id", "hashedRoomId"}

\* The properties posthog-js computes for an event before it calls
\* sanitize_properties: its own (the raw href, the referrers, the device id)
\* and the event's.
EventProperties(hashedRoomId) ==
    [k \in PropKeys |->
        CASE k = "$current_url" ->
                location.origin \o location.pathname \o location.hash
          [] k = "$referrer" -> <<"https://", "referrer.example", "/", "page">>
          [] k = "$referring_domain" -> <<"referrer.example">>
          [] k = "$initial_referrer" -> <<"https://", "first.example", "/">>
          [] k = "$initial_referring_domain" -> <<"first.example">>
          [] k = "$device_id" -> <<"device-uuid">>
          [] OTHER -> hashedRoomId]

NoProps == [k \in PropKeys |-> Undefined]

\* The arguments of a direct call of getRedactedCurrentLocation: the origin of
\* the web app or of a local file, a pathname, and a fragment with or without
\* a screen segment (known, unknown or empty) and trailing segments.
Origins == {<<"https://", "app.example">>, <<"file://">>}
Pathnames == {<<"/">>, <<"/", "Users", "/", "alice", "/", "index.html">>}
Screens == {<<"room">>, <<"home">>, <<"secret_screen">>, <<>>}
Segments == {<<"!r1:hs">>, <<"$ev1">>, <<"room">>, <<>>}
SegmentLists == UNION {[1..n -> Segments] : n \in 0..MaxSegments}
Hashes ==
    {<<>>, <<"#">>} \cup
    {Join(<< <<"#">>, screen >> \o segs) : screen \in Screens, segs \in SegmentLists}

-----------------------------------------------------------------------------
\* The frames of the calls.

\* A call that has not been made.  kind, arg: the method and its roomId or
\* userId.  pc: where the call stands.  ret: the promise its caller holds.
\* hashedRoomId, anonymity, awaited, ver: its local values.  The rest is
\* history: stored (its recompute has stored the cache), fresh (and no other
\* recompute has stored it since), failed (a digest it awaited rejected),
\* since (the state of the pipeline when the call was made), captures (how
\* often it called posthog.capture or, for identifyUser, posthog.identify).
NoCall ==
    [kind |-> "none", pc |-> "idle", ret |-> "none", arg |-> Null,
     hashedRoomId |-> Undefined, anonymity |-> Anonymous, awaited |-> 0,
     ver |-> 0, stored |-> FALSE, fresh |-> FALSE, failed |-> FALSE,
     since |-> "none", captures |-> 0]

\* The frame of a call that has ended: its local values are gone.
Ended(f, pc) ==
    [f EXCEPT !.pc = pc, !.arg = Null, !.hashedRoomId = Undefined,
              !.anonymity = Anonymous,
              !.awaited = 0, !.ver = 0, !.fresh = FALSE]

\* init() before its first call.  n, dnt, config: how often init() has been
\* called, and what the last call found.
NoInit ==
    [pc |-> "idle", ret |-> "none", n |-> 0, dnt |-> FALSE,
     config |-> FALSE, anonymity |-> Anonymous, awaited |-> 0, ver |-> 0]

EndedInit(f, ret) ==
    [f EXCEPT !.pc = "idle", !.ret = ret, !.anonymity = Anonymous,
              !.awaited = 0, !.ver = 0]

\* What the sink keeps of the frame of the call that invokes it.
Caller(f) ==
    [kind |-> f.kind, arg |-> f.arg, ret |-> f.ret, ver |-> f.ver,
     hashedRoomId |-> f.hashedRoomId, anonymity |-> f.anonymity, stored |-> f.stored, fresh |-> f.fresh,
     failed |-> f.failed, since |-> f.since]

\* No invocation of the sink in the last step.  op: init, capture or identify.  by, call:
\* the call that made it (0: init) and its frame at that time.  props: the
\* properties the sanitize hook returned.  id: the argument of identify.
\* onlyAnon: the tier at that time.  cache: the recompute that stored the
\* cache it read (ver: the window.location it read; byInit: it was init's).
NoCache == [ver |-> 0, byInit |-> FALSE]

NoSink ==
    [op |-> "none", by |-> 0, call |-> Caller(NoCall), props |-> NoProps,
     id |-> Null, onlyAnon |-> FALSE, cache |-> NoCache]

\* No direct call of getRedactedCurrentLocation.
NoRedaction ==
    [pc |-> "none", origin |-> <<>>, hash |-> <<>>, pathname |-> <<>>,
     anonymity |-> Anonymous, awaited |-> 0, result |-> Undefined]

Calls == 1..MaxCalls

\* Why the pipeline is Disabled, read off the last init() call: it found the
\* do-not-track signal, or it found no sink configuration and the pipeline
\* was not initialised.
Disabled ==
    IF initCall.n = 0 THEN "none"
    ELSE IF initCall.dnt THEN "dnt"
    ELSE IF ~initCall.config /\ ~initialised THEN "noconfig"
    ELSE "none"

\* The state of the pipeline: Disabled ("dnt", "noconfig"), Active
\* ("active"), or not initialised yet ("none").
Status ==
    IF Disabled # "none" THEN Disabled
    ELSE IF initialised THEN "active"
    ELSE "none"

Init ==
    /\ onlyTrackAnonymousEvents = FALSE
    /\ initialised = FALSE
    /\ redactedCurrentLocation = Null
    /\ navCount = 0
    /\ calls = [c \in Calls |-> NoCall]
    /\ initCall = NoInit
    /\ sink = NoSink
    /\ cacheSrc = NoCache
    /\ redaction = NoRedaction

-----------------------------------------------------------------------------
\* PosthogAnalytics: the code of each method up to its first await, as an
\* operator on the frame of the call.

\* updateRedactedCurrentLocation up to its await: it reads window.location
\* (the frame keeps which: ver) and the tier and calls
\* getRedactedCurrentLocation, which runs up to its first digest, or to its
\* end when it awaits none.
\* `only` is this.onlyTrackAnonymousEvents at the time of the call.
updateRedactedCurrentLocation(f, only) ==
    LET anonymity == IF only THEN Anonymous ELSE Pseudonymous
    IN [f EXCEPT !.anonymity = anonymity,
                 !.awaited = 0,
                 !.ver = navCount,
                 !.pc = IF DigestsAwaited(location.hash, anonymity) = 0
                        THEN "store" ELSE "digest"]

\* capture that does not await updateRedactedCurrentLocation.
captureWithoutAwait(f) ==
    IF ~initialised
    THEN Ended(f, "notInitialised")
    ELSE [updateRedactedCurrentLocation(f, onlyTrackAnonymousEvents)
             EXCEPT !.pc = "capture"]

\* capture up to its await.
capture(f) ==
    IF ~initialised
    THEN Ended(f, "notInitialised")
    ELSE updateRedactedCurrentLocation(f, onlyTrackAnonymousEvents)

\* trackPseudonymousEvent without its check of the tier.
trackPseudonymousEventUngated(f) ==
    [capture(f) EXCEPT !.ret = "resolved"]

\* trackPseudonymousEvent: the call of capture is not awaited, the promise of
\* trackPseudonymousEvent resolves when its body ends.
trackPseudonymousEventBody(f) ==
    IF onlyTrackAnonymousEvents
    THEN [Ended(f, "policyDenied") EXCEPT !.ret = "resolved"]
    ELSE [capture(f) EXCEPT !.ret = "resolved"]

\* trackAnonymousEvent that checks the tier as trackPseudonymousEvent does.
trackAnonymousEventGated(f) ==
    trackPseudonymousEventBody(f)

\* trackAnonymousEvent: likewise.
trackAnonymousEventBody(f) ==
    [capture(f) EXCEPT !.ret = "resolved"]

\* trackRoomEvent that attaches the roomId as it is.
trackRoomEventBodyUnhashed(f) ==
    trackPseudonymousEventBody(
        [f EXCEPT !.hashedRoomId = IF f.arg \in {Null, <<>>} THEN Null ELSE f.arg])

\* trackRoomEvent up to its await: a roomId that is null or empty is not
\* hashed and the rest of the body runs at once.
trackRoomEventBody(f) ==
    IF f.arg \in {Null, <<>>}
    THEN trackPseudonymousEventBody([f EXCEPT !.hashedRoomId = Null])
    ELSE [f EXCEPT !.pc = "hashRoom", !.ret = "pending"]

\* identifyUser up to its await.
identifyUserBody(f) ==
    IF onlyTrackAnonymousEvents
    THEN [Ended(f, "policyDenied") EXCEPT !.ret = "resolved"]
    ELSE [f EXCEPT !.pc = "hashUser", !.ret = "pending"]

\* sanitizeProperties that leaves the device id in place.
sanitizePropertiesKeepsDeviceId(properties) ==
    [k \in PropKeys |->
        IF k = "$current_url" THEN redactedCurrentLocation
        ELSE IF /\ onlyTrackAnonymousEvents
                /\ k \in {"$referrer", "$referring_domain", "$initial_referrer",
                          "$initial_referring_domain"}
             THEN Null
        ELSE properties[k]]

\* sanitizeProperties, the hook the sink calls with the properties of an
\* event.
sanitizeProperties(properties) ==
    [k \in PropKeys |->
        IF k = "$current_url" THEN redactedCurrentLocation
        ELSE IF /\ onlyTrackAnonymousEvents
                /\ k \in {"$referrer", "$referring_domain", "$initial_referrer",
                          "$initial_referring_domain", "$device_id"}
             THEN Null
        ELSE properties[k]]

-----------------------------------------------------------------------------
\* The public calls.  The calls of a run are numbered in the order they are
\* made.

CanCall(c) ==
    /\ calls[c].kind = "none"
    /\ \A d \in Calls : d < c => calls[d].kind # "none"

NewCall(kind, arg) ==
    [NoCall EXCEPT !.kind = kind, !.arg = arg, !.since = Status]

Frame == <<onlyTrackAnonymousEvents, initialised, redactedCurrentLocation,
           navCount, initCall, cacheSrc, redaction>>

trackAnonymousEvent(c) ==
    /\ CanCall(c)
    /\ calls' = [calls EXCEPT ![c] = trackAnonymousEventBody(NewCall("anonymous", Null))]
    /\ sink' = NoSink
    /\ UNCHANGED Frame

trackPseudonymousEvent(c) ==
    /\ CanCall(c)
    /\ calls' = [calls EXCEPT ![c] = trackPseudonymousEventBody(NewCall("pseudonymous", Null))]
    /\ sink' = NoSink
    /\ UNCHANGED Frame

trackRoomEvent(c, roomId) ==
    /\ CanCall(c)
    /\ calls' = [calls EXCEPT ![c] = trackRoomEventBody(NewCall("room", roomId))]
    /\ sink' = NoSink
    /\ UNCHANGED Frame

identifyUser(c, userId) ==
    /\ CanCall(c)
    /\ calls' = [calls EXCEPT ![c] = identifyUserBody(NewCall("identify", userId))]
    /\ sink' = NoSink
    /\ UNCHANGED Frame

\* setOnlyTrackAnonymousEvents that takes the pipeline out of use when it
\* turns the Anonymous tier on.
setOnlyTrackAnonymousEventsResets(enabled) ==
    /\ onlyTrackAnonymousEvents' = enabled
    /\ initialised' = (initialised /\ ~enabled)
    /\ sink' = NoSink
    /\ UNCHANGED <<redactedCurrentLocation, navCount, calls,
                   initCall, cacheSrc, redaction>>

setOnlyTrackAnonymousEvents(enabled) ==
    /\ onlyTrackAnonymousEvents' = enabled
    /\ sink' = NoSink
    /\ UNCHANGED <<initialised, redactedCurrentLocation, navCount, calls,
                   initCall, cacheSrc, redaction>>

\* window.location changes (the user navigates).
Navigate ==
    /\ navCount < MaxNav
    /\ navCount' = navCount + 1
    /\ sink' = NoSink
    /\ UNCHANGED <<onlyTrackAnonymousEvents, initialised, redactedCurrentLocation,
                   calls, initCall, cacheSrc, redaction>>

-----------------------------------------------------------------------------
\* The continuations of the calls: what runs when an awaited promise
\* settles.  A digest resolves (ok) or rejects.

\* trackRoomEvent when hashHex(roomId) rejects: the call rejects.
trackRoomEventRejected(f) ==
    [Ended(f, "digestFailed") EXCEPT !.ret = "rejected"]

\* trackRoomEvent after its await.
RoomDigest(c, ok) ==
    /\ calls[c].pc = "hashRoom"
    /\ calls' = [calls EXCEPT ![c] =
            IF ok
            THEN trackPseudonymousEventBody(
                     [calls[c] EXCEPT !.hashedRoomId = hashHex(calls[c].arg)])
            ELSE trackRoomEventRejected([calls[c] EXCEPT !.failed = TRUE])]
    /\ sink' = NoSink
    /\ UNCHANGED Frame

\* identifyUser when hashHex(userId) rejects: the call rejects.
identifyUserRejected(f) ==
    [Ended(f, "digestFailed") EXCEPT !.ret = "rejected"]

\* identifyUser after its await: posthog.identify(<digest>).
UserDigest(c, ok) ==
    /\ calls[c].pc = "hashUser"
    /\ IF ok
       THEN /\ sink' = [NoSink EXCEPT !.op = "identify",
                                      !.by = c,
                                      !.call = Caller(calls[c]),
                                      !.id = hashHex(calls[c].arg),
                                      !.onlyAnon = onlyTrackAnonymousEvents]
            /\ calls' = [calls EXCEPT ![c] =
                    [Ended(calls[c], "done") EXCEPT !.ret = "resolved",
                                                    !.captures = @ + 1]]
       ELSE /\ sink' = NoSink
            /\ calls' = [calls EXCEPT ![c] =
                    identifyUserRejected([calls[c] EXCEPT !.failed = TRUE])]
    /\ UNCHANGED <<onlyTrackAnonymousEvents, initialised, redactedCurrentLocation,
                   navCount, initCall, cacheSrc, redaction>>

\* getRedactedCurrentLocation after the await of one digest.
AfterDigest(f) ==
    [f EXCEPT !.awaited = @ + 1,
              !.pc = IF f.awaited + 1 = DigestsAwaited(LocationAt(f.ver).hash, f.anonymity)
                     THEN "store" ELSE "digest"]

\* getRedactedCurrentLocation that catches a rejected digest and goes on with
\* the segment as it is.
DigestRejectedFallsBack(f) ==
    AfterDigest(f)

\* getRedactedCurrentLocation when a digest rejects: it rejects, and so do
\* updateRedactedCurrentLocation and capture, whose promise nobody awaits.
DigestRejected(f) ==
    Ended(f, "digestFailed")

PartDigest(c, ok) ==
    /\ calls[c].pc = "digest"
    /\ calls' = [calls EXCEPT ![c] =
            IF ok THEN AfterDigest(calls[c])
            ELSE DigestRejected([calls[c] EXCEPT !.failed = TRUE])]
    /\ sink' = NoSink
    /\ UNCHANGED Frame

\* updateRedactedCurrentLocation that reads window.location after its await.
RedactedFromLocationNow(f) ==
    getRedactedCurrentLocation(location.origin, location.hash, location.pathname,
                               f.anonymity)

\* The value updateRedactedCurrentLocation stores from the frame's copy of
\* window.location and of the tier.
Redacted(f) ==
    getRedactedCurrentLocation(LocationAt(f.ver).origin, LocationAt(f.ver).hash,
                               LocationAt(f.ver).pathname, f.anonymity)

\* updateRedactedCurrentLocation after its await: the assignment.
StoreLocation(c) ==
    /\ calls[c].pc = "store"
    /\ redactedCurrentLocation' = Redacted(calls[c])
    /\ cacheSrc' = [ver |-> calls[c].ver, byInit |-> FALSE]
    /\ calls' = [d \in Calls |->
            IF d = c
            THEN [calls[c] EXCEPT !.pc = "capture", !.stored = TRUE, !.fresh = TRUE]
            ELSE [calls[d] EXCEPT !.fresh = FALSE]]
    /\ sink' = NoSink
    /\ UNCHANGED <<onlyTrackAnonymousEvents, initialised, navCount, initCall,
                   redaction>>

\* capture after its await: posthog.capture(eventName, properties), which
\* calls the sanitize hook before it sends.
SinkCapture(c) ==
    /\ calls[c].pc = "capture"
    /\ sink' = [op |-> "capture",
                by |-> c,
                call |-> Caller(calls[c]),
                props |-> sanitizeProperties(EventProperties(calls[c].hashedRoomId)),
                id |-> Null,
                onlyAnon |-> onlyTrackAnonymousEvents,
                cache |-> cacheSrc]
    /\ calls' = [calls EXCEPT ![c] =
            [Ended(calls[c], "done") EXCEPT !.captures = @ + 1]]
    /\ UNCHANGED <<onlyTrackAnonymousEvents, initialised, redactedCurrentLocation,
                   navCount, initCall, cacheSrc, redaction>>

-----------------------------------------------------------------------------
\* init.  One init() call runs at a time.

\* init up to its await.  `dnt` is navigator.doNotTrack === "1", `config` is
\* whether SdkConfig holds a "posthog" entry; seesDnt and seesConfig are what
\* init makes of them.
InitCalled(only, dnt, config, seesDnt, seesConfig) ==
    /\ initCall.pc = "idle"
    /\ initCall.n < MaxInits
    /\ LET started == [NoInit EXCEPT !.n = initCall.n + 1, !.dnt = dnt,
                                     !.config = ~dnt /\ config]
       IN IF seesDnt
          THEN /\ initialised' = FALSE
               /\ onlyTrackAnonymousEvents' = onlyTrackAnonymousEvents
               /\ initCall' = [started EXCEPT !.ret = "resolved"]
          ELSE /\ initialised' = initialised
               /\ onlyTrackAnonymousEvents' = only
               /\ initCall' = IF seesConfig
                              THEN updateRedactedCurrentLocation(
                                       [started EXCEPT !.ret = "pending"], only)
                              ELSE [started EXCEPT !.ret = "resolved"]
    \* A call made before an init() that can enable the pipeline is no longer
    \* a call made while the pipeline is Disabled.
    /\ calls' = IF ~dnt /\ config
                THEN [c \in Calls |->
                        IF calls[c].since \in {"dnt", "noconfig"}
                        THEN [calls[c] EXCEPT !.since = "none"]
                        ELSE calls[c]]
                ELSE calls
    /\ sink' = NoSink
    /\ UNCHANGED <<redactedCurrentLocation, navCount, cacheSrc, redaction>>

\* init that does not look at navigator.doNotTrack.
initIgnoringDoNotTrack(only, dnt, config) ==
    InitCalled(only, dnt, config, FALSE, config)

\* init that does not look for the sink configuration.
initWithoutConfigCheck(only, dnt, config) ==
    InitCalled(only, dnt, config, dnt, TRUE)

init(only, dnt, config) ==
    InitCalled(only, dnt, config, dnt, config)

\* getRedactedCurrentLocation, called by init, after the await of one digest;
\* when the digest rejects, init rejects.
InitPartDigest(ok) ==
    /\ initCall.pc = "digest"
    /\ initCall' = IF ok THEN AfterDigest(initCall)
                   ELSE EndedInit(initCall, "rejected")
    /\ sink' = NoSink
    /\ UNCHANGED <<onlyTrackAnonymousEvents, initialised, redactedCurrentLocation,
                   navCount, calls, cacheSrc, redaction>>

\* init that goes on to posthog.init without the value of the recompute.
InitStoreLocationSkipped ==
    /\ initCall.pc = "store"
    /\ initCall' = [initCall EXCEPT !.pc = "sink"]
    /\ sink' = NoSink
    /\ UNCHANGED <<onlyTrackAnonymousEvents, initialised, redactedCurrentLocation,
                   navCount, calls, cacheSrc, redaction>>

\* updateRedactedCurrentLocation, called by init, after its await.
InitStoreLocation ==
    /\ initCall.pc = "store"
    /\ redactedCurrentLocation' = Redacted(initCall)
    /\ cacheSrc' = [ver |-> initCall.ver, byInit |-> TRUE]
    /\ initCall' = [initCall EXCEPT !.pc = "sink"]
    /\ calls' = [d \in Calls |-> [calls[d] EXCEPT !.fresh = FALSE]]
    /\ sink' = NoSink
    /\ UNCHANGED <<onlyTrackAnonymousEvents, initialised, navCount, redaction>>

\* init after its await: posthog.init, which captures a pageview at once and
\* calls the sanitize hook for it, and initialised = true.
InitSink ==
    /\ initCall.pc = "sink"
    /\ sink' = [op |-> "init",
                by |-> 0,
                call |-> Caller(NoCall),
                props |-> sanitizeProperties(EventProperties(Undefined)),
                id |-> Null,
                onlyAnon |-> onlyTrackAnonymousEvents,
                cache |-> cacheSrc]
    /\ initialised' = TRUE
    /\ initCall' = EndedInit(initCall, "resolved")
    /\ UNCHANGED <<onlyTrackAnonymousEvents, redactedCurrentLocation, navCount,
                   calls, cacheSrc, redaction>>

-----------------------------------------------------------------------------
\* The specification.

\* The continuations of call c.
Continue(c) ==
    \/ \E ok \in BOOLEAN : RoomDigest(c, ok)
    \/ \E ok \in BOOLEAN : UserDigest(c, ok)
    \/ \E ok \in BOOLEAN : PartDigest(c, ok)
    \/ StoreLocation(c)
    \/ SinkCapture(c)

ContinueInit ==
    \/ \E ok \in BOOLEAN : InitPartDigest(ok)
    \/ InitStoreLocation
    \/ InitSink

Next ==
    \/ \E enabled \in BOOLEAN : setOnlyTrackAnonymousEvents(enabled)
    \/ Navigate
    \/ \E only, dnt, config \in BOOLEAN : init(only, dnt, config)
    \/ ContinueInit
    \/ \E c \in Calls : trackAnonymousEvent(c)
    \/ \E c \in Calls : trackPseudonymousEvent(c)
    \/ \E c \in Calls, roomId \in RoomIds : trackRoomEvent(c, roomId)
    \/ \E c \in Calls, userId \in UserIds : identifyUser(c, userId)
    \/ \E c \in Calls : Continue(c)

Spec == Init /\ [][Next]_vars

\* The runs in which init() is called once, at most.
OneInitNext ==
    \/ \E enabled \in BOOLEAN : setOnlyTrackAnonymousEvents(enabled)
    \/ Navigate
    \/ \E only, dnt, config \in BOOLEAN :
          initCall.n = 0 /\ init(only, dnt, config)
    \/ ContinueInit
    \/ \E c \in Calls : trackAnonymousEvent(c)
    \/ \E c \in Calls : trackPseudonymousEvent(c)
    \/ \E c \in Calls, roomId \in RoomIds : trackRoomEvent(c, roomId)
    \/ \E c \in Calls, userId \in UserIds : identifyUser(c, userId)
    \/ \E c \in Calls : Continue(c)

\* The event loop runs every continuation that is queued, and every digest
\* settles.
FairSpec ==
    /\ Init /\ [][OneInitNext]_vars
    /\ \A c \in Calls : WF_vars(Continue(c))
    /\ WF_vars(ContinueInit)

-----------------------------------------------------------------------------
\* getRedactedCurrentLocation on its own: one call of the exported function
\* with arguments of the caller's choice, and its awaits.

Pipeline == <<onlyTrackAnonymousEvents, initialised, redactedCurrentLocation,
              navCount, calls, initCall, sink, cacheSrc>>

\* The frame of the call up to its first await (or to its return, when it
\* awaits no digest).
getRedactedCurrentLocationCalled(origin, hash, pathname, anonymity) ==
    [NoRedaction EXCEPT !.origin = origin, !.hash = hash, !.pathname = pathname,
                        !.anonymity = anonymity,
                        !.pc = IF DigestsAwaited(hash, anonymity) = 0
                               THEN "return" ELSE "digest"]

RedactInit ==
    /\ onlyTrackAnonymousEvents = FALSE
    /\ initialised = FALSE
    /\ redactedCurrentLocation = Null
    /\ navCount = 0
    /\ calls = [c \in Calls |-> NoCall]
    /\ initCall = NoInit
    /\ sink = NoSink
    /\ cacheSrc = NoCache
    /\ redaction \in
          {getRedactedCurrentLocationCalled(origin, hash, pathname, anonymity) :
              origin \in Origins, hash \in Hashes, pathname \in Pathnames,
              anonymity \in {Anonymous, Pseudonymous}}

\* The loop after the await of one digest; when the digest rejects, the call
\* rejects.
RedactionDigest(ok) ==
    /\ redaction.pc = "digest"
    /\ redaction' =
          IF ok
          THEN [redaction EXCEPT
                   !.awaited = @ + 1,
                   !.pc = IF redaction.awaited + 1 =
                              DigestsAwaited(redaction.hash, redaction.anonymity)
                          THEN "return" ELSE "digest"]
          ELSE [redaction EXCEPT !.pc = "rejected"]
    /\ UNCHANGED Pipeline

\* The return of the call.
RedactionReturn ==
    /\ redaction.pc = "return"
    /\ redaction' =
          [redaction EXCEPT
              !.pc = "resolved",
              !.result = getRedactedCurrentLocation(
                             redaction.origin, redaction.hash,
                             redaction.pathname, redaction.anonymity)]
    /\ UNCHANGED Pipeline

RedactNext ==
    \/ \E ok \in BOOLEAN : RedactionDigest(ok)
    \/ RedactionReturn

RedactSpec == RedactInit /\ [][RedactNext]_vars

-----------------------------------------------------------------------------
\* The claims.

TrackKinds == {"anonymous", "pseudonymous", "room"}

\* C1: whenever a track call invokes posthog.capture, the recompute of that
\* very call has stored the redacted location before, whatever other calls
\* ran in between.
C1_RecomputeBeforeCapture ==
    sink.op = "capture" => sink.call.stored

\* C1, witness: a track call invokes posthog.capture after its own store
\* while another track call is in the middle of its recompute.
C1_Witness ==
    /\ sink.op = "capture"
    /\ sink.call.stored
    /\ \E d \in Calls : d # sink.by /\ calls[d].pc \in {"digest", "store", "capture"}

\* C2, as claimed: posthog.capture is never invoked for a pseudonymous or room
\* event while onlyTrackAnonymousEvents is true.
C2_NoPseudonymousCaptureUnderAnonymous ==
    (sink.op = "capture" /\ sink.call.kind \in {"pseudonymous", "room"})
        => ~sink.onlyAnon

\* C3, as claimed: posthog.identify is never invoked while
\* onlyTrackAnonymousEvents is true.
C3_NoIdentifyUnderAnonymous ==
    sink.op = "identify" => ~sink.onlyAnon

C5_DisabledIsTerminal ==
    sink.op \in {"capture", "identify"} => sink.call.since \notin {"dnt", "noconfig"}

\* C6: an init() that finds no sink configuration (and no do-not-track
\* signal) does not invoke the sink, starts no recompute and leaves the cache
\* and the initialised flag as they are, and its promise resolves.
C6_NoConfiguration ==
    [][(\E only \in BOOLEAN : init(only, FALSE, FALSE))
          => /\ sink' = NoSink
             /\ redactedCurrentLocation' = redactedCurrentLocation
             /\ initialised' = initialised
             /\ initCall'.pc = "idle"
             /\ initCall'.ret = "resolved"]_vars

\* C6, witness: init() has found no configuration, the pipeline is not
\* initialised and the cache is still empty.
C6_Witness ==
    /\ initCall.n > 0 /\ ~initCall.dnt /\ ~initCall.config
    /\ initCall.pc = "idle" /\ initCall.ret = "resolved"
    /\ ~initialised
    /\ redactedCurrentLocation = Null
    /\ sink = NoSink

\* C7: every trackAnonymousEvent made while the pipeline is initialised
\* leads to posthog.capture for it, once and never twice, unless a digest of
\* its recompute rejects.
C7_AnonymousEventCaptured ==
    /\ [](\A c \in Calls : calls[c].captures <= 1)
    /\ \A c \in Calls :
          (calls[c].kind = "anonymous" /\ calls[c].since = "active")
              ~> (calls[c].captures = 1 \/ calls[c].failed)

\* C7, witness: two anonymous events made while initialised have been
\* captured, one of them made under the Anonymous tier.
C7_Witness ==
    /\ \A c \in Calls : /\ calls[c].kind = "anonymous"
                        /\ calls[c].since = "active"
                        /\ calls[c].captures = 1
    /\ sink.op = "capture" /\ sink.call.anonymity = Anonymous

\* C8: a call in which a digest rejected is over, has not stored the cache
\* and does not invoke the sink; the step in which the digest rejects leaves
\* the cache as it is.
C8_DigestFailureAborts ==
    /\ [](\A c \in Calls : calls[c].failed =>
              /\ calls[c].pc = "digestFailed"
              /\ ~calls[c].stored
              /\ calls[c].captures = 0)
    /\ [](sink.op # "none" => ~sink.call.failed)
    /\ [][(\E c \in Calls : calls'[c].failed /\ ~calls[c].failed)
              => /\ redactedCurrentLocation' = redactedCurrentLocation
                 /\ sink' = NoSink]_vars

\* C8, witness: a digest rejected in the recompute of one call and in the
\* hash of the identifier of another, with a cache that init() had filled.
C8_Witness ==
    /\ redactedCurrentLocation # Null
    /\ \E c \in Calls : /\ calls[c].failed
                        /\ calls[c].kind \in {"anonymous", "pseudonymous"}
    /\ \E c \in Calls : /\ calls[c].failed
                        /\ calls[c].kind \in {"room", "identify"}

\* C9, as claimed: the promise of no track or identify call rejects.
C9_NothingThrown ==
    \A c \in Calls : calls[c].ret # "rejected"

\* C10, as claimed: the cache the sanitize hook reads during the
\* posthog.capture of a call was not computed from an older window.location
\* than the one the call's own recompute read.
C10_NeverStale ==
    (sink.op = "capture" /\ ~sink.cache.byInit) => sink.cache.ver >= sink.call.ver

\* C10, amended: the sanitize hook reads the value the call's own recompute
\* stored unless another recompute has stored the cache since (the last
\* writer wins); only then can it be computed from an older window.location.
C10_LastWriterWins ==
    sink.op = "capture" =>
        /\ sink.call.fresh =>
              /\ sink.props["$current_url"] =
                    getRedactedCurrentLocation(
                        LocationAt(sink.call.ver).origin,
                        LocationAt(sink.call.ver).hash,
                        LocationAt(sink.call.ver).pathname,
                        sink.call.anonymity)
              /\ sink.cache = [ver |-> sink.call.ver, byInit |-> FALSE]
        /\ sink.cache.ver < sink.call.ver => ~sink.call.fresh

\* C10, witness: of two overlapping track calls that read different
\* locations, one reads at its capture the value its own recompute stored.
C10_Witness ==
    /\ sink.op = "capture"
    /\ sink.call.fresh
    /\ \E d \in Calls : /\ d # sink.by
                        /\ calls[d].pc \in {"digest", "store", "capture"}
                        /\ calls[d].ver # sink.call.ver

-----------------------------------------------------------------------------
\* What leaves the pipeline.

Tokens(s) == {s[i] : i \in 1..Len(s)}

\* The trailing segments of the fragments of the locations visited, and the
\* pieces of text of these segments and of the pathnames of local files.
RawSegments ==
    UNION {{HashParts(LocationAt(ver).hash)[i] :
                i \in 1..Len(HashParts(LocationAt(ver).hash))} : ver \in 0..MaxNav}

RawTokens ==
    UNION ({Tokens(p) : p \in RawSegments} \cup
           {IF StartsWith(LocationAt(ver).origin, <<"file://">>)
            THEN Tokens(LocationAt(ver).pathname) \ {"/"}
            ELSE {} : ver \in 0..MaxNav})

\* Where the fragment of a URL starts.
FragmentAt(url) ==
    CHOOSE i \in 1..Len(url) : url[i] = "#" /\ \A j \in 1..(i - 1) : url[j] # "#"

\* A redacted location: it holds no raw piece of text, every trailing segment
\* of its fragment is the marker or a digest (or empty), and behind the
\* origin of a local file comes the placeholder.
IsRedactedLocation(url) ==
    /\ Tokens(url) \cap RawTokens = {}
    /\ \E i \in 1..Len(url) : url[i] = "#"
    /\ LET pieces == Split(SubSeq(url, FragmentAt(url), Len(url)))
       IN /\ Len(pieces) >= 3
          /\ \A k \in 3..Len(pieces) :
                pieces[k] \in {<<"<redacted>">>, <<>>} \cup
                              {hashHex(p) : p \in RawSegments}
    /\ StartsWith(url, <<"file://">>) =>
          SubSeq(url, 2, FragmentAt(url) - 1) = <<"/", "<redacted_file_scheme_url>", "/">>

\* C11: the cache is null or a redacted location, and so is every
\* $current_url the sanitize hook writes (at the pageview of posthog.init and
\* at every posthog.capture): no raw trailing segment, and no raw pathname of
\* a local file.
C11_OnlyRedactedLocations ==
    /\ redactedCurrentLocation = Null \/ IsRedactedLocation(redactedCurrentLocation)
    /\ sink.op \in {"init", "capture"} => IsRedactedLocation(sink.props["$current_url"])

\* C11, witness: the hook writes the location of a room opened from a local
\* file, its trailing segment a digest, while another call is under way.
C11_Witness ==
    /\ sink.op = "capture"
    /\ StartsWith(sink.props["$current_url"], <<"file://">>)
    /\ hashHex(<<"!r1:hs">>)[1] \in Tokens(sink.props["$current_url"])
    /\ \E d \in Calls : d # sink.by /\ calls[d].pc \in {"digest", "store", "capture"}

-----------------------------------------------------------------------------
\* The result of getRedactedCurrentLocation, read piece by piece.

\* The trailing segments of the fragment passed.
InSegments == HashParts(redaction.hash)

\* The pieces of the result between its separators; the last ones are its
\* trailing segments, as many as were passed, and before them (before the
\* empty last piece, when none was passed) comes its screen segment.
OutPieces == Split(redaction.result)

OutSegments ==
    SubSeq(OutPieces, Len(OutPieces) - Len(InSegments) + 1, Len(OutPieces))

OutScreen ==
    OutPieces[Len(OutPieces) - (IF Len(InSegments) = 0 THEN 1 ELSE Len(InSegments))]

\* C12: in the result of getRedactedCurrentLocation every trailing segment,
\* however many there are, is replaced: under the Anonymous tier by the marker
\* "<redacted>", and no piece of text of a segment passed is left in the
\* trailing segments; under the Pseudonymous tier by the digest of the
\* segment, equal segments by equal digests.
C12_TrailingSegmentsReplaced ==
    redaction.pc = "resolved" =>
        /\ Len(OutSegments) = Len(InSegments)
        /\ \A i \in 1..Len(InSegments) :
              IF redaction.anonymity = Anonymous
              THEN /\ OutSegments[i] = <<"<redacted>">>
                   /\ \A j \in 1..Len(InSegments) :
                         Tokens(InSegments[j]) \cap Tokens(OutSegments[i]) = {}
              ELSE /\ OutSegments[i] = hashHex(InSegments[i])
                   /\ OutSegments[i] # InSegments[i]
                   /\ \A j \in 1..Len(InSegments) :
                         InSegments[i] = InSegments[j] => OutSegments[i] = OutSegments[j]

\* C12, witness: a result under the Pseudonymous tier for a fragment with as
\* many trailing segments as the bound allows, two of them equal and one
\* different.
C12_Witness ==
    /\ redaction.pc = "resolved"
    /\ redaction.anonymity = Pseudonymous
    /\ Len(InSegments) = MaxSegments
    /\ InSegments[1] = InSegments[2]
    /\ InSegments[1] # InSegments[MaxSegments]
    /\ InSegments[1] = <<"!r1:hs">>

\* C13: the screen segment of the result is the screen segment passed when
\* that is a known screen, and "<redacted_screen_name>" when it is not or
\* when the fragment has none, under either tier; it is never a digest.
C13_ScreenKeptOrOpaque ==
    redaction.pc = "resolved" =>
        /\ OutScreen = IF HashScreen(redaction.hash) \in knownScreens
                       THEN HashScreen(redaction.hash)
                       ELSE <<"<redacted_screen_name>">>
        /\ HashScreen(redaction.hash) \notin knownScreens =>
              OutScreen # hashHex(HashScreen(redaction.hash))

\* C13, witness: a result under the Pseudonymous tier for a fragment with a
\* screen that is not known and trailing segments.
C13_Witness ==
    /\ redaction.pc = "resolved"
    /\ redaction.anonymity = Pseudonymous
    /\ HashScreen(redaction.hash) = <<"secret_screen">>
    /\ Len(InSegments) > 0
    /\ OutScreen = <<"<redacted_screen_name>">>

-----------------------------------------------------------------------------
\* The life of the pipeline.

\* C14, as claimed: once the initialised flag is true, no step makes it false.
C14_InitialisedForGood ==
    [][initialised => initialised']_vars

\* C14, amended: the only step that makes the initialised flag false is an
\* init() that finds the do-not-track signal; every other operation, a
\* repeated init() without the signal included, leaves a true flag true, and
\* setOnlyTrackAnonymousEvents sets the tier and leaves the flag as it is.
C14_LeavesActiveOnlyByDoNotTrack ==
    [][/\ (initialised /\ ~initialised') =>
             (initCall'.n = initCall.n + 1 /\ initCall'.dnt)
       /\ (\E enabled \in BOOLEAN : setOnlyTrackAnonymousEvents(enabled)) =>
             (initialised' = initialised /\ onlyTrackAnonymousEvents' \in BOOLEAN)]_vars

\* C14, witness: the pipeline was initialised (a call reached
\* posthog.capture), then a repeated init() found the do-not-track signal.
C14_Witness ==
    /\ Disabled = "dnt"
    /\ ~initialised
    /\ initCall.n > 1
    /\ \E c \in Calls : calls[c].kind \in TrackKinds /\ calls[c].captures = 1

-----------------------------------------------------------------------------
\* Who writes the cache, and who contacts the sink.

\* How a track call ends that is dropped: by the tier, or by capture's check
\* of the initialised flag.
Dropped == {"policyDenied", "notInitialised"}

\* A step in which a recompute stores the cache: init's, or that of a track
\* call, which for a pseudonymous or room event started under the
\* Pseudonymous tier.
RecomputeStores ==
    \/ InitStoreLocation
    \/ \E c \in Calls :
          /\ StoreLocation(c)
          /\ calls[c].kind \in TrackKinds
          /\ calls[c].kind \in {"pseudonymous", "room"} =>
                calls[c].anonymity = Pseudonymous

\* A step of an identifyUser call, and a step in which a track call is dropped.
IdentifySteps ==
    \E c \in Calls : calls'[c] # calls[c] /\ calls'[c].kind = "identify"

DropSteps ==
    \E c \in Calls : calls'[c].pc \in Dropped /\ calls[c].pc \notin Dropped

\* C15, as claimed: the cache changes only when a recompute stores it, and
\* setOnlyTrackAnonymousEvents, identifyUser, the sanitize hook and every
\* dropped track call leave the cache as it is and do not contact the sink.
C15_OnlyRecomputeWritesNobodyElseSinks ==
    /\ [][redactedCurrentLocation' # redactedCurrentLocation => RecomputeStores]_vars
    /\ [][sink'.op \in {"init", "capture"} =>
              redactedCurrentLocation' = redactedCurrentLocation]_vars
    /\ [][((\E enabled \in BOOLEAN : setOnlyTrackAnonymousEvents(enabled))
             \/ IdentifySteps \/ DropSteps)
              => /\ redactedCurrentLocation' = redactedCurrentLocation
                 /\ sink' = NoSink]_vars

\* C15, amended: as claimed, but identifyUser does contact the sink, by
\* posthog.identify and by nothing else; and a dropped track call has neither
\* stored the cache nor reached posthog.capture.
C15_OnlyRecomputeWrites ==
    /\ [][redactedCurrentLocation' # redactedCurrentLocation => RecomputeStores]_vars
    /\ [][sink'.op \in {"init", "capture"} =>
              redactedCurrentLocation' = redactedCurrentLocation]_vars
    /\ [][((\E enabled \in BOOLEAN : setOnlyTrackAnonymousEvents(enabled)) \/ DropSteps)
              => /\ redactedCurrentLocation' = redactedCurrentLocation
                 /\ sink' = NoSink]_vars
    /\ [][IdentifySteps
              => /\ redactedCurrentLocation' = redactedCurrentLocation
                 /\ sink'.op \in {"none", "identify"}]_vars
    /\ [](\A c \in Calls : calls[c].pc \in Dropped =>
              ~calls[c].stored /\ calls[c].captures = 0)

\* C15, witness: identifyUser reaches posthog.identify with a cache that a
\* recompute had stored, after a track call was dropped.
C15_Witness ==
    /\ sink.op = "identify"
    /\ redactedCurrentLocation # Null
    /\ \E d \in Calls : calls[d].pc \in Dropped

-----------------------------------------------------------------------------
\* The sanitize hook.

\* The trailing segments of the fragment of a URL.
TrailingOf(url) ==
    LET pieces == Split(SubSeq(url, FragmentAt(url), Len(url)))
    IN SubSeq(pieces, 3, Len(pieces))

\* C16, as claimed: when the sanitize hook runs while the tier is Anonymous,
\* every trailing segment of the $current_url it writes is the marker (or
\* there is none), and none is a digest.
C16_AnonymousTierAnonymousLocation ==
    (sink.op \in {"init", "capture"} /\ sink.onlyAnon) =>
        \A k \in 1..Len(TrailingOf(sink.props["$current_url"])) :
            TrailingOf(sink.props["$current_url"])[k] \in {<<"<redacted>">>, <<>>}

\* C17: whenever the sink invokes the sanitize hook (for the pageview of
\* posthog.init and for every posthog.capture) the cache holds a computed
\* value, and the $current_url the hook writes is neither null nor undefined.
C17_CacheFilledAtHook ==
    sink.op \in {"init", "capture"} =>
        /\ redactedCurrentLocation # Null
        /\ sink.props["$current_url"] \notin {Null, Undefined}

\* C17, witness: the pageview of the first posthog.init, the first use of the
\* cache.
C17_Witness ==
    /\ sink.op = "init"
    /\ initCall.n = 1
    /\ sink.props["$current_url"] = redactedCurrentLocation
    /\ redactedCurrentLocation # Null

\* C18: the sanitize hook sets $current_url to the cache; when the tier is
\* Anonymous it sets the four referrer properties and $device_id to null and
\* leaves the rest; when the tier is Pseudonymous it leaves every other
\* property as the sink passed it; and the step in which it runs changes
\* neither the cache nor the tier (nor, at posthog.capture, the initialised
\* flag).
C18_HookEffect ==
    /\ [](sink.op \in {"init", "capture"} =>
            LET passed == EventProperties(sink.call.hashedRoomId)
                nulled == {"$referrer", "$referring_domain", "$initial_referrer",
                           "$initial_referring_domain", "$device_id"}
            IN /\ sink.props["$current_url"] = redactedCurrentLocation
               /\ \A k \in PropKeys \ {"$current_url"} :
                     sink.props[k] = IF sink.onlyAnon /\ k \in nulled
                                     THEN Null
                                     ELSE passed[k])
    /\ [][sink'.op \in {"init", "capture"} =>
            /\ redactedCurrentLocation' = redactedCurrentLocation
            /\ onlyTrackAnonymousEvents' = onlyTrackAnonymousEvents
            /\ sink'.op = "capture" => initialised' = initialised]_vars

\* C18, witness: the hook runs under the Anonymous tier for a room event that
\* carries a hashed room id.
C18_Witness ==
    /\ sink.op = "capture"
    /\ sink.onlyAnon
    /\ sink.call.kind = "room"
    /\ sink.props["hashedRoomId"] = hashHex(<<"!r1:hs">>)
    /\ sink.props["$device_id"] = Null

-----------------------------------------------------------------------------
\* Identifiers.

\* What the sink is handed is a digest and holds no piece of the raw value:
\* posthog.identify gets the digest of the userId, and a room event carries
\* the digest of its roomId (null when the roomId is null or empty) and no
\* property with a piece of the roomId; no call invokes the sink twice.
OnlyDigestsHandedOver ==
    /\ sink.op = "identify" =>
          /\ sink.id = hashHex(sink.call.arg)
          /\ Tokens(sink.call.arg) \cap Tokens(sink.id) = {}
    /\ (sink.op = "capture" /\ sink.call.kind = "room") =>
          IF sink.call.arg \in {Null, <<>>}
          THEN sink.props["hashedRoomId"] = Null
          ELSE /\ sink.props["hashedRoomId"] = hashHex(sink.call.arg)
               /\ \A k \in PropKeys :
                     Tokens(sink.call.arg) \cap Tokens(sink.props[k]) = {}
    /\ \A c \in Calls : calls[c].captures <= 1

\* C19, as claimed: only digests are handed over, and an identifyUser call
\* that passed the check of the tier leads to posthog.identify, once, unless
\* the tier becomes Anonymous.
C19_IdentifiedOnceWithDigest ==
    /\ []OnlyDigestsHandedOver
    /\ \A c \in Calls :
          (calls[c].kind = "identify" /\ calls[c].pc = "hashUser")
              ~> (calls[c].captures = 1 \/ onlyTrackAnonymousEvents)

\* C19, amended: the same, unless the digest of the userId rejects; then
\* posthog.identify is not invoked.
C19_IdentifiedOnceUnlessDigestFails ==
    /\ []OnlyDigestsHandedOver
    /\ [](\A c \in Calls : calls[c].failed => calls[c].captures = 0)
    /\ \A c \in Calls :
          (calls[c].kind = "identify" /\ calls[c].pc = "hashUser")
              ~> (calls[c].captures = 1 \/ calls[c].failed
                    \/ onlyTrackAnonymousEvents)

\* C19, witness: posthog.identify with the digest of the userId, after a room
\* event was captured.
C19_Witness ==
    /\ sink.op = "identify"
    /\ sink.id = hashHex(<<"@alice:hs">>)
    /\ ~sink.onlyAnon
    /\ \E d \in Calls : calls[d].kind = "room" /\ calls[d].captures = 1

-----------------------------------------------------------------------------
\* Completion.

\* C20, as claimed: when the promise of a track call has resolved, the event
\* is settled (dropped, or handed to posthog.capture), and posthog.capture is
\* never invoked for a call whose promise has resolved already.
C20_SettledOnCompletion ==
    /\ \A c \in Calls :
          (calls[c].kind \in TrackKinds /\ calls[c].ret = "resolved") =>
              calls[c].pc \in Dropped \cup {"done"}
    /\ sink.op = "capture" => sink.call.ret # "resolved"

====
